---- MODULE Spec2Model ----
(***************************************************************************)
(* Model of NavigationState (src/src/navigation.rs): the back/forward      *)
(* history of visited directories with a remembered scroll offset per      *)
(* entry (specification Spec), and of FileManager::delete_file with its    *)
(* privilege-escalating delete (src/src/delete.rs, and the plain variant   *)
(* in src/src/file_manager.rs; specifications SpecDelete, SpecDeleteFair), *)
(* and of the inline history and the asynchronous directory loads of       *)
(* FileManager in src/src/file_manager.rs, run side by side with           *)
(* NavigationState (specification SpecFM).                                 *)
(*                                                                         *)
(* Indices are 0-based as in the source: the entry at history_index is     *)
(* history[history_index + 1] in TLA+ (see At).                            *)
(* Scroll offsets are f32 values; the model uses the integers 0, 42, ...   *)
(* for 0.0, 42.0, ...                                                      *)
(***************************************************************************)
EXTENDS Integers, Sequences, FiniteSets, TLC

(* ------------------------------ bounds -------------------------------- *)

\* Longest history explored when max_history is the default 50.
MaxLen == 4

\* max_history is a public field. new() sets it to 50; the model also starts
\* from the small values 1..MaxSmallHistory so that eviction of the oldest
\* entry happens within MaxLen entries.
MaxSmallHistory == 3

\* Most directory loads in flight (started, FilesLoaded not yet delivered).
MaxInFlight == 2

(* ------------------------- program constants -------------------------- *)

DefaultMaxHistory == 50

(* ------------------------------ inputs -------------------------------- *)

\* Directories (PathBuf values).  The last one stands for a path holding a
\* byte sequence that is not valid UTF-8.
Paths == {"/home/user", "/home/user/docs", "/tmp/<FF>"}

\* f32 scroll offsets passed to update_current_scroll.
Scrolls == {0, 42}

MaxHistoryValues == (1..MaxSmallHistory) \cup {DefaultMaxHistory}

(* ------------------------------ state --------------------------------- *)

VARIABLES
    current_path,    \* NavigationState.current_path
    path_input,      \* NavigationState.path_input
    history,         \* NavigationState.history : Vec<ViewHistory>
    history_index,   \* NavigationState.history_index (0-based)
    max_history,     \* NavigationState.max_history
    panicked,        \* TRUE once a call has panicked (index out of bounds)
    lastOp,          \* the most recent call: its arguments, result and pre-state
    prevOp,          \* the call before lastOp
    nav_calls,       \* the calls so far, while they are navigate_to calls with
                     \* pairwise distinct paths
    ui,              \* FileManager: popup, error_message, selected_file, ...
    fs,              \* the file system: the delete target and the temp script
    del,             \* the delete_file call in progress: position and locals
    fm,              \* FileManager (file_manager.rs): current_path, history,
                     \* history_index, cached_files, loading, ...
    loads            \* directory loads in flight: Command::perform futures
                     \* whose Message::FilesLoaded is still to be delivered

nav == <<current_path, path_input, history, history_index, max_history>>
navvars == <<current_path, path_input, history, history_index, max_history,
             panicked, lastOp, prevOp, nav_calls>>
delvars == <<ui, fs, del>>
fmvars == <<fm, loads>>
vars == <<current_path, path_input, history, history_index, max_history,
          panicked, lastOp, prevOp, nav_calls, ui, fs, del, fm, loads>>

(* ------------------------------ helpers ------------------------------- *)

\* Option<T>
None == <<>>
Some(x) == <<x>>

\* ViewHistory::new
ViewHistory(path, scroll) == [path |-> path, scroll |-> scroll]

\* Vec indexing with a 0-based index.
At(h, i) == h[i + 1]

\* Path::to_string_lossy().to_string(): invalid UTF-8 is replaced by U+FFFD.
ToStringLossy(path) ==
    IF path = "/tmp/<FF>" THEN "/tmp/<U+FFFD>" ELSE path

\* Fault: the search runs from the oldest entry (no .rev()).
get_remembered_scroll_oldest_first(h, path) ==
    LET hits == {i \in 1..Len(h) : h[i].path = path}
    IN  IF hits = {} THEN 0
        ELSE h[CHOOSE i \in hits : \A j \in hits : i <= j].scroll

\* history.iter().rev().find(|e| e.path == *path).map(|e| e.scroll).unwrap_or(0.0)
get_remembered_scroll(h, path) ==
    LET hits == {i \in 1..Len(h) : h[i].path = path}
    IN  IF hits = {} THEN 0
        ELSE h[CHOOSE i \in hits : \A j \in hits : j <= i].scroll

(* Variants of add_to_history with one seeded fault each. *)

\* Fault: the cursor is set to the tail before the oldest entry is removed.
add_to_history_index_first(h, i, maxh, path, scroll) ==
    LET h1 == IF i + 1 < Len(h) THEN SubSeq(h, 1, i + 1) ELSE h
    IN  IF Len(h1) > 0 /\ h1[Len(h1)].path = path
        THEN [history |-> h1, history_index |-> i]
        ELSE LET h2 == Append(h1, ViewHistory(path, scroll))
             IN  IF Len(h2) > maxh
                 THEN [history |-> Tail(h2), history_index |-> Len(h2) - 1]
                 ELSE [history |-> h2, history_index |-> Len(h2) - 1]

\* Fault: no duplicate check (as FileManager::add_to_history, file_manager.rs).
add_to_history_always_push(h, i, maxh, path, scroll) ==
    LET h1 == IF i + 1 < Len(h) THEN SubSeq(h, 1, i + 1) ELSE h
        h2 == Append(h1, ViewHistory(path, scroll))
    IN  IF Len(h2) > maxh
        THEN [history |-> Tail(h2), history_index |-> i]
        ELSE [history |-> h2, history_index |-> Len(h2) - 1]

\* Fault: the bound is tested off by one (len > max_history + 1).
add_to_history_late_evict(h, i, maxh, path, scroll) ==
    LET h1 == IF i + 1 < Len(h) THEN SubSeq(h, 1, i + 1) ELSE h
    IN  IF Len(h1) > 0 /\ h1[Len(h1)].path = path
        THEN [history |-> h1, history_index |-> i]
        ELSE LET h2 == Append(h1, ViewHistory(path, scroll))
             IN  IF Len(h2) > maxh + 1
                 THEN [history |-> Tail(h2), history_index |-> i]
                 ELSE [history |-> h2, history_index |-> Len(h2) - 1]

\* Fault: the forward entries are not truncated.
add_to_history_keep_future(h, i, maxh, path, scroll) ==
    IF Len(h) > 0 /\ h[Len(h)].path = path
    THEN [history |-> h, history_index |-> i]
    ELSE LET h2 == Append(h, ViewHistory(path, scroll))
         IN  IF Len(h2) > maxh
             THEN [history |-> Tail(h2), history_index |-> i]
             ELSE [history |-> h2, history_index |-> Len(h2) - 1]

\* Fault: the cursor is decremented when the oldest entry is removed.
add_to_history_shift_cursor(h, i, maxh, path, scroll) ==
    LET h1 == IF i + 1 < Len(h) THEN SubSeq(h, 1, i + 1) ELSE h
    IN  IF Len(h1) > 0 /\ h1[Len(h1)].path = path
        THEN [history |-> h1, history_index |-> i]
        ELSE LET h2 == Append(h1, ViewHistory(path, scroll))
             IN  IF Len(h2) > maxh
                 THEN [history |-> Tail(h2), history_index |-> i - 1]
                 ELSE [history |-> h2, history_index |-> Len(h2) - 1]

\* Fault: truncate(self.history_index) drops the current entry as well.
add_to_history_truncate_short(h, i, maxh, path, scroll) ==
    LET h1 == IF i + 1 < Len(h) THEN SubSeq(h, 1, i) ELSE h
    IN  IF Len(h1) > 0 /\ h1[Len(h1)].path = path
        THEN [history |-> h1, history_index |-> i]
        ELSE LET h2 == Append(h1, ViewHistory(path, scroll))
             IN  IF Len(h2) > maxh
                 THEN [history |-> Tail(h2), history_index |-> i]
                 ELSE [history |-> h2, history_index |-> Len(h2) - 1]

\* fn add_to_history(&mut self, path, scroll): the new (history, history_index).
add_to_history(h, i, maxh, path, scroll) ==
    LET \* if self.history_index + 1 < self.history.len() { truncate(index + 1) }
        h1 == IF i + 1 < Len(h) THEN SubSeq(h, 1, i + 1) ELSE h
    IN  \* if let Some(last) = self.history.last() { if last.path == path { return } }
        IF Len(h1) > 0 /\ h1[Len(h1)].path = path
        THEN [history |-> h1, history_index |-> i]
        ELSE LET h2 == Append(h1, ViewHistory(path, scroll))
             IN  IF Len(h2) > maxh
                 THEN \* self.history.remove(0); history_index is left as it was
                      [history |-> Tail(h2), history_index |-> i]
                 ELSE [history |-> h2, history_index |-> Len(h2) - 1]

\* Fault: can_go_back tests history_index > 1.
can_go_back_strict(i) == i > 1

\* pub fn can_go_back(&self) -> bool
can_go_back(i) == i > 0

\* Fault: can_go_forward tests history_index < history.len().
can_go_forward_inclusive(h, i) == i < Len(h)

\* pub fn can_go_forward(&self) -> bool
can_go_forward(h, i) == i + 1 < Len(h)

\* self.history[j]: Some(entry), or a panic when j is out of bounds.
Index(h, j) ==
    IF 0 <= j /\ j < Len(h)
    THEN [ret |-> Some(At(h, j)), panic |-> FALSE]
    ELSE [ret |-> None, panic |-> TRUE]

\* pub fn go_back(&mut self) -> Option<ViewHistory>: new index, result, panic
go_back(h, i) ==
    IF can_go_back(i)
    THEN [history_index |-> i - 1] @@ Index(h, i - 1)
    ELSE [history_index |-> i, ret |-> None, panic |-> FALSE]

\* Fault: go_forward jumps to the newest entry.
go_forward_to_tail(h, i) ==
    IF can_go_forward(h, i)
    THEN [history_index |-> Len(h) - 1] @@ Index(h, Len(h) - 1)
    ELSE [history_index |-> i, ret |-> None, panic |-> FALSE]

\* pub fn go_forward(&mut self) -> Option<ViewHistory>: new index, result, panic
go_forward(h, i) ==
    IF can_go_forward(h, i)
    THEN [history_index |-> i + 1] @@ Index(h, i + 1)
    ELSE [history_index |-> i, ret |-> None, panic |-> FALSE]

\* Fault: the entry to update is looked up by the current path (first match)
\* instead of by history_index.
update_current_scroll_by_path(h, i, scroll) ==
    IF 0 <= i /\ i < Len(h)
    THEN LET k == CHOOSE k \in 1..Len(h) :
                    /\ h[k].path = h[i + 1].path
                    /\ \A j \in 1..(k - 1) : h[j].path # h[i + 1].path
         IN  [h EXCEPT ![k].scroll = scroll]
    ELSE h

\* Fault: every entry with the current entry's path is updated.
update_current_scroll_all_visits(h, i, scroll) ==
    IF 0 <= i /\ i < Len(h)
    THEN [k \in 1..Len(h) |->
             IF h[k].path = h[i + 1].path THEN [h[k] EXCEPT !.scroll = scroll]
             ELSE h[k]]
    ELSE h

\* Fault: writing a scroll offset discards the forward entries, as a
\* navigation would.
update_current_scroll_drop_forward(h, i, scroll) ==
    IF 0 <= i /\ i < Len(h)
    THEN SubSeq([h EXCEPT ![i + 1].scroll = scroll], 1, i + 1)
    ELSE h

\* pub fn update_current_scroll(&mut self, scroll): the new history.
update_current_scroll(h, i, scroll) ==
    IF 0 <= i /\ i < Len(h)
    THEN [h EXCEPT ![i + 1].scroll = scroll]
    ELSE h

\* pub fn get_current_scroll(&self) -> f32
get_current_scroll(h, i) ==
    IF 0 <= i /\ i < Len(h) THEN At(h, i).scroll ELSE 0

\* Vec::dedup on a vector of paths: consecutive equal paths collapse.
RECURSIVE Dedup(_)
Dedup(ps) ==
    IF Len(ps) <= 1 THEN ps
    ELSE LET rest == Dedup(Tail(ps))
         IN  IF Head(ps) = Head(rest) THEN rest ELSE <<Head(ps)>> \o rest

\* pub fn get_visited_paths(&self) -> Vec<PathBuf>: works on a copy of the
\* paths; the history itself is not touched.
get_visited_paths(h) == Dedup([k \in 1..Len(h) |-> h[k].path])

(* ------------------- FileManager::delete_file: data ------------------- *)

\* Result<(), String>
Ok == [ok |-> TRUE, err |-> ""]
Err(e) == [ok |-> FALSE, err |-> e]

\* The String errors of delete.rs, and the io::Error of a plain delete.
ErrBatchCreate == "Failed to create batch file: <io error>"
ErrBatchFailed == "Batch command failed"
ErrBatchSpawn == "Failed to execute batch command: <io error>"
ErrPsFailed == "Direct PowerShell command failed"
ErrPsSpawn == "Failed to execute PowerShell command: <io error>"
ErrStillExists == "File/folder still exists after all deletion attempts"
ErrIo == "<io error>"

\* Outcome of Command::output(): the spawn failed, or the child ran and
\* reported status.success() or not.
ChildOutcomes == {"spawn_error", "success", "failure"}

\* The locals of a delete_file call that has not started.
NoDelete ==
    [pc |-> "idle", variant |-> "delete.rs", is_dir |-> FALSE, result |-> None,
     stages |-> <<>>, checks |-> <<>>, final_checked |-> FALSE,
     children |-> [s2 |-> "none", s3 |-> "none", s4 |-> "none"],
     after |-> [s1 |-> "n/a", s2 |-> "n/a", s3 |-> "n/a", s4 |-> "n/a"],
     normal_result |-> None, cmd_result |-> None, ps_result |-> None,
     script |-> "none",
     pre_ui |-> None, at_call |-> "n/a"]

\* The delete-side state while only NavigationState is exercised.
DeleteIdle ==
    /\ ui = [popup |-> FALSE, error_message |-> None, selected_file |-> "none",
             loading |-> FALSE, cached_files |-> TRUE, loads |-> 0]
    /\ fs = [target |-> "absent", batch_file |-> FALSE]
    /\ del = NoDelete

(* ------------- FileManager: inline history and directory loads -------- *)

\* FileManager::new, the fields the navigation and the loads use. history is
\* a Vec<PathBuf>; cached_files is None until the first listing arrives.
NewFileManager(dir) ==
    [current_path |-> dir, path_input |-> ToStringLossy(dir),
     selected_file |-> None, error_message |-> None, popup |-> None,
     cached_files |-> None, scroll_offset |-> 0, loading |-> TRUE,
     history |-> <<dir>>, history_index |-> 0, max_history |-> DefaultMaxHistory]

\* The FileManager-side state while it is not exercised.
FmIdle ==
    /\ fm = [NewFileManager("/home/user") EXCEPT !.loading = FALSE]
    /\ loads = <<>>

\* FileManager::add_to_history(&mut self, path) of file_manager.rs
fm_add_to_history(f, path) ==
    LET \* if self.history_index + 1 < self.history.len() { truncate(index + 1) }
        h1 == IF f.history_index + 1 < Len(f.history)
              THEN SubSeq(f.history, 1, f.history_index + 1)
              ELSE f.history
        \* self.history.push(path)
        h2 == Append(h1, path)
    IN  IF Len(h2) > f.max_history
        THEN [f EXCEPT !.history = Tail(h2)]
        ELSE [f EXCEPT !.history = h2, !.history_index = Len(h2) - 1]

\* FileManager::can_go_back / can_go_forward of file_manager.rs
fm_can_go_back(f) == f.history_index > 0

fm_can_go_forward(f) == f.history_index + 1 < Len(f.history)

\* FileManager::navigate_to_path_internal, the assignments (the load it
\* starts is appended to loads by the action).
navigate_to_path_internal(f, path) ==
    [f EXCEPT !.popup = None, !.current_path = path, !.selected_file = None,
              !.error_message = None, !.path_input = ToStringLossy(path),
              !.cached_files = None, !.scroll_offset = 0, !.loading = TRUE]

\* FileManager::navigate_to_path
navigate_to_path(f, path) ==
    navigate_to_path_internal(fm_add_to_history(f, path), path)

\* FileManager::go_back of file_manager.rs: the new state, and whether a
\* load was started.
fm_go_back(f) ==
    IF fm_can_go_back(f)
    THEN LET g == [f EXCEPT !.history_index = @ - 1]
         IN  [fm |-> navigate_to_path_internal(g, At(g.history, g.history_index)),
              load |-> TRUE]
    ELSE [fm |-> f, load |-> FALSE]

\* FileManager::go_forward of file_manager.rs
fm_go_forward(f) ==
    IF fm_can_go_forward(f)
    THEN LET g == [f EXCEPT !.history_index = @ + 1]
         IN  [fm |-> navigate_to_path_internal(g, At(g.history, g.history_index)),
              load |-> TRUE]
    ELSE [fm |-> f, load |-> FALSE]

\* FileManager::refresh_current_directory, on the fields of fm.
fm_refresh_current_directory(f) ==
    [f EXCEPT !.popup = None, !.cached_files = None, !.error_message = None,
              !.loading = TRUE]

\* helper::load_files_sync(path, show_hidden): one more future in flight. It
\* will read the directory `path`; its message carries no path.
load_files_sync(q, path) == Append(q, path)

\* What load_directory_contents(dir) yields: the listing of dir, or an error.
Listing(dir) == [of |-> dir]

LoadResults(dir) == {[ok |-> TRUE, files |-> Listing(dir)],
                     [ok |-> FALSE, error |-> "<read_dir error>"]}

\* update(), Message::FilesLoaded(result)
on_files_loaded(f, result) ==
    IF result.ok
    THEN [f EXCEPT !.loading = FALSE,
                   !.cached_files = Some([dir |-> f.current_path,
                                          files |-> result.files]),
                   !.error_message = None]
    ELSE [f EXCEPT !.loading = FALSE, !.error_message = Some(result.error)]

\* The sequence q without its k-th element.
RemoveAt(q, k) == SubSeq(q, 1, k - 1) \o SubSeq(q, k + 1, Len(q))

(* --------------------------- call records ----------------------------- *)

\* One call of the public interface: the operation, its arguments, its
\* result, and the NavigationState fields (the tuple nav) before the call.
Call(op, path, scroll, ret, pre) ==
    [op |-> op, path |-> path, scroll |-> scroll, ret |-> ret, pre |-> pre]

NoCall == Call("new", "", 0, None, <<>>)

\* Fields of the state recorded before a call.
PreCurrentPath(c) == c.pre[1]
PrePathInput(c) == c.pre[2]
PreHistory(c) == c.pre[3]
PreIndex(c) == c.pre[4]

\* nav_calls after one more call: navigate_to calls are collected while
\* they are the only calls since new() and their paths are pairwise distinct.
NavCallsAfter(op, path) ==
    IF /\ nav_calls.only_distinct
       /\ op = "navigate_to"
       /\ \A k \in 1..Len(nav_calls.paths) : nav_calls.paths[k] # path
    THEN [only_distinct |-> TRUE, paths |-> Append(nav_calls.paths, path)]
    ELSE [only_distinct |-> FALSE, paths |-> <<>>]

Record(op, path, scroll, ret) ==
    /\ lastOp' = Call(op, path, scroll, ret, nav)
    /\ prevOp' = lastOp
    /\ nav_calls' = NavCallsAfter(op, path)

(* ------------------------------ actions ------------------------------- *)

\* NavigationState::new(): current_dir() may be any directory.
Init ==
    /\ current_path \in Paths
    /\ path_input = ToStringLossy(current_path)
    /\ history = <<ViewHistory(current_path, 0)>>
    /\ history_index = 0
    /\ max_history \in MaxHistoryValues
    /\ panicked = FALSE
    /\ lastOp = NoCall
    /\ prevOp = NoCall
    /\ nav_calls = [only_distinct |-> TRUE, paths |-> <<>>]
    /\ DeleteIdle
    /\ FmIdle

\* pub fn navigate_to(&mut self, path: PathBuf)
NavigateTo(path) ==
    /\ ~panicked
    /\ LET r == add_to_history(history, history_index, max_history, path,
                               get_remembered_scroll(history, path))
       IN  /\ Len(r.history) <= MaxLen
           /\ history' = r.history
           /\ history_index' = r.history_index
    /\ current_path' = path
    /\ path_input' = ToStringLossy(path)
    /\ Record("navigate_to", path, 0, None)
    /\ UNCHANGED <<max_history, panicked>>

\* pub fn update_current_scroll(&mut self, scroll: f32)
UpdateCurrentScroll(scroll) ==
    /\ ~panicked
    /\ history' = update_current_scroll(history, history_index, scroll)
    /\ Record("update_current_scroll", "", scroll, None)
    /\ UNCHANGED <<current_path, path_input, history_index, max_history, panicked>>

\* A go_back / go_forward call with outcome r (of go_back or go_forward).
Travel(op, r) ==
    /\ ~panicked
    /\ history_index' = r.history_index
    /\ panicked' = r.panic
    /\ IF r.ret # None
       THEN /\ current_path' = r.ret[1].path
            /\ path_input' = ToStringLossy(r.ret[1].path)
       ELSE UNCHANGED <<current_path, path_input>>
    /\ Record(op, "", 0, r.ret)
    /\ UNCHANGED <<history, max_history>>

\* pub fn go_back(&mut self) -> Option<ViewHistory>
GoBack == Travel("go_back", go_back(history, history_index))

\* pub fn go_forward(&mut self) -> Option<ViewHistory>
GoForward == Travel("go_forward", go_forward(history, history_index))

\* The calls on a NavigationState used on its own.
Next ==
    \/ \E path \in Paths : NavigateTo(path) /\ UNCHANGED <<delvars, fmvars>>
    \/ \E scroll \in Scrolls :
          UpdateCurrentScroll(scroll) /\ UNCHANGED <<delvars, fmvars>>
    \/ GoBack /\ UNCHANGED <<delvars, fmvars>>
    \/ GoForward /\ UNCHANGED <<delvars, fmvars>>

Spec == Init /\ [][Next]_vars

(* ----------------- FileManager::delete_file: operations --------------- *)

Exists(f) == f.target # "absent"

\* format!("Error deleting {}: {}", if path.is_dir() {"folder"} else {"file"}, e)
ErrorDeleting(is_dir_now, e) ==
    [kind |-> IF is_dir_now THEN "folder" ELSE "file", reason |-> e]

\* self.popup = None; self.error_message = None;
clear_before_delete(u) ==
    [u EXCEPT !.popup = FALSE, !.error_message = None]

\* FileManager::refresh_current_directory (file_manager.rs)
refresh_current_directory(u) ==
    [u EXCEPT !.popup = FALSE, !.cached_files = FALSE, !.error_message = None,
              !.loading = TRUE, !.loads = @ + 1]

\* FileManager::refresh_directory, called by delete.rs: reloads the listing.
refresh_directory(u) ==
    [u EXCEPT !.cached_files = FALSE, !.loading = TRUE, !.loads = @ + 1]

\* UiState::set_error, called by delete.rs: the user-visible error string.
set_error(u, error) == [u EXCEPT !.error_message = Some(error)]

\* Fault: the selection is cleared and the listing reloaded on an error too.
on_plain_result_always_refresh(u, result, is_dir_now) ==
    LET v == refresh_current_directory([u EXCEPT !.selected_file = "none"])
    IN  IF ~result.ok
        THEN [v EXCEPT !.error_message = Some(ErrorDeleting(is_dir_now, result.err))]
        ELSE v

\* delete_file of file_manager.rs, from `if let Err(e) = result` on.
on_plain_result(u, result, is_dir_now) ==
    IF ~result.ok
    THEN [u EXCEPT !.error_message = Some(ErrorDeleting(is_dir_now, result.err))]
    ELSE refresh_current_directory([u EXCEPT !.selected_file = "none"])

\* delete_file of delete.rs, `match result { Ok(_) => .., Err(e) => .. }`.
on_elevated_result(u, result, is_dir_now) ==
    IF result.ok
    THEN refresh_directory([u EXCEPT !.selected_file = "none"])
    ELSE set_error(u, ErrorDeleting(is_dir_now, result.err))

\* Fault: the result of the plain delete is not looked at.
after_plain_delete_ignored(normal_ok) == None

\* delete_with_elevation: if normal_result.is_ok() { return Ok(()) }
after_plain_delete(normal_ok) ==
    IF normal_ok THEN Some(Ok) ELSE None

\* Fault: a zero exit status of the stage-2 process is taken as success.
after_elevated_remove_trusting_status(child, exists) ==
    IF child = "success" THEN Some(Ok) ELSE None

\* Fault: a failure to spawn the stage-2 process is returned as an error.
after_elevated_remove_propagating(child, exists) ==
    IF child = "spawn_error" THEN Some(Err(ErrPsSpawn))
    ELSE IF child = "success" /\ ~exists THEN Some(Ok) ELSE None

\* delete_with_elevation: match output { Ok(result) => if result.status
\* .success() && !path.exists() { Ok(()) } else { alternative }, Err(_) => .. }
after_elevated_remove(child, exists) ==
    IF child = "success" /\ ~exists THEN Some(Ok) ELSE None

\* try_cmd_delete: match output { .. }
try_cmd_delete_result(child) ==
    CASE child = "success" -> Ok
      [] child = "failure" -> Err(ErrBatchFailed)
      [] OTHER -> Err(ErrBatchSpawn)

\* Fault: the batch file is removed only when the invocation produced an
\* output (the removal sits in the Ok(result) arm).
after_batch_run_cleanup_in_ok_arm(child) ==
    IF child = "spawn_error" THEN "s3_return" ELSE "s3_cleanup"

\* Fault: when the invocation cannot be spawned the batch file is written
\* and run again.
after_batch_run_retrying(child) ==
    IF child = "spawn_error" THEN "s3_write" ELSE "s3_cleanup"

\* Fault: a failure to spawn the batch invocation panics (.expect(..)).
after_batch_run_panicking(child) ==
    IF child = "spawn_error" THEN "panicked" ELSE "s3_cleanup"

\* try_cmd_delete: `let _ = fs::remove_file(&batch_file)` follows the
\* invocation whatever its output; the position after the invocation.
after_batch_run(child) == "s3_cleanup"

\* try_powershell_direct: match output { .. }
try_powershell_direct_result(child) ==
    CASE child = "success" -> Ok
      [] child = "failure" -> Err(ErrPsFailed)
      [] OTHER -> Err(ErrPsSpawn)

\* Fault: the result of the attempt is trusted without the existence test.
after_try_trusting_status(result, exists) ==
    IF result.ok THEN Some(Ok) ELSE None

\* Fault: the error of the attempt is propagated (`?`) to the caller.
after_try_propagating(result, exists) ==
    IF ~result.ok THEN Some(result)
    ELSE IF ~exists THEN Some(Ok) ELSE None

\* force_delete_alternative: if result.is_ok() && !path.exists() { return Ok(()) }
after_try(result, exists) ==
    IF result.ok /\ ~exists THEN Some(Ok) ELSE None

\* Fault: no final existence test, the attempts are reported as failed.
final_check_always_err(exists) == Err(ErrStillExists)

\* Fault: the final check reports the error of the last attempt.
final_check_reports_last_stage(exists) ==
    IF exists THEN Err(ErrPsFailed) ELSE Ok

\* force_delete_alternative: the final check
final_check(exists) ==
    IF exists THEN Err(ErrStillExists) ELSE Ok

\* The target after a stage that did or did not remove it.
Removal(removed) == IF removed THEN "absent" ELSE fs.target

ExistsText(b) == IF b THEN "exists" ELSE "absent"

\* `a && !path.exists()`: the existence check runs only when a holds.
Checked(a, exists) == IF a THEN Append(del.checks, exists) ELSE del.checks

\* The call returns r (Some) or goes on at position next (None).
ReturnOr(d, r, next) ==
    IF r # None THEN [d EXCEPT !.result = r, !.pc = "match"]
    ELSE [d EXCEPT !.pc = next]

(* ------------------ FileManager::delete_file: actions ----------------- *)

\* The state a delete_file call starts from.
InitDelete ==
    /\ current_path = "/home/user"
    /\ path_input = ToStringLossy(current_path)
    /\ history = <<ViewHistory(current_path, 0)>>
    /\ history_index = 0
    /\ max_history = DefaultMaxHistory
    /\ panicked = FALSE
    /\ lastOp = NoCall
    /\ prevOp = NoCall
    /\ nav_calls = [only_distinct |-> TRUE, paths |-> <<>>]
    /\ ui \in [popup : BOOLEAN,
               error_message : {None, Some(ErrorDeleting(FALSE, "<earlier error>"))},
               selected_file : {"none", "target", "other"},
               loading : {FALSE}, cached_files : BOOLEAN, loads : {0}]
    /\ fs \in [target : {"file", "dir", "absent"}, batch_file : BOOLEAN]
    /\ \E v \in {"delete.rs", "file_manager.rs"} : del = [NoDelete EXCEPT !.variant = v]
    /\ FmIdle

\* delete_file, up to the call of the delete:
\* popup = None; error_message = None; path.is_dir()
DeleteFile ==
    /\ del.pc = "idle"
    /\ ui' = clear_before_delete(ui)
    /\ del' = [del EXCEPT !.pc = "s1", !.is_dir = (fs.target = "dir"),
                          !.pre_ui = Some(ui), !.at_call = fs.target]
    /\ UNCHANGED <<fs, navvars, fmvars>>

\* Stage 1: fs::remove_dir_all / fs::remove_file. ok is what the call reports.
PlainDelete(ok) ==
    /\ del.pc = "s1"
    /\ ok => Exists(fs)
    /\ fs' = [fs EXCEPT !.target = Removal(ok)]
    /\ LET d == [del EXCEPT !.stages = Append(@, 1),
                            !.normal_result = Some(IF ok THEN Ok ELSE Err(ErrIo)),
                            !.after.s1 = ExistsText(~ok /\ Exists(fs))]
       IN  del' = IF del.variant = "file_manager.rs"
                  THEN [d EXCEPT !.result = Some(IF ok THEN Ok ELSE Err(ErrIo)),
                                 !.pc = "match"]
                  ELSE ReturnOr(d, after_plain_delete(ok), "s2")
    /\ UNCHANGED <<ui, navvars, fmvars>>

\* Stage 2: the elevated PowerShell Remove-Item and the test of its output.
ElevatedRemove(child, removed) ==
    /\ del.pc = "s2"
    /\ removed => (child # "spawn_error" /\ Exists(fs))
    /\ fs' = [fs EXCEPT !.target = Removal(removed)]
    /\ LET e == Exists(fs')
           d == [del EXCEPT !.stages = Append(@, 2),
                            !.children.s2 = child,
                            !.after.s2 = ExistsText(e),
                            !.checks = Checked(child = "success", e)]
       IN  del' = ReturnOr(d, after_elevated_remove(child, e), "s3_write")
    /\ UNCHANGED <<ui, navvars, fmvars>>

\* Stage 3, try_cmd_delete: fs::write(&batch_file, script_content)
TryCmdDeleteWrite(wrote) ==
    /\ del.pc = "s3_write"
    /\ fs' = [fs EXCEPT !.batch_file = @ \/ wrote]
    /\ del' = IF wrote
              THEN [del EXCEPT !.stages = Append(@, 3), !.script = "written",
                               !.pc = "s3_run"]
              ELSE [del EXCEPT !.stages = Append(@, 3),
                               !.cmd_result = Some(Err(ErrBatchCreate)),
                               !.pc = "s3_return"]
    /\ UNCHANGED <<ui, navvars, fmvars>>

\* Stage 3, try_cmd_delete: the elevated cmd /c "<batch file>"
TryCmdDeleteRun(child, removed) ==
    /\ del.pc = "s3_run"
    /\ removed => (child # "spawn_error" /\ Exists(fs))
    /\ fs' = [fs EXCEPT !.target = Removal(removed)]
    /\ del' = [del EXCEPT !.children.s3 = child,
                          !.cmd_result = Some(try_cmd_delete_result(child)),
                          !.pc = after_batch_run(child)]
    /\ UNCHANGED <<ui, navvars, fmvars>>

\* Stage 3, try_cmd_delete: let _ = fs::remove_file(&batch_file)
TryCmdDeleteCleanup(removed_ok) ==
    /\ del.pc = "s3_cleanup"
    /\ fs' = [fs EXCEPT !.batch_file = ~removed_ok]
    /\ del' = [del EXCEPT !.script = IF removed_ok THEN "removed" ELSE "remove_failed",
                          !.pc = "s3_return"]
    /\ UNCHANGED <<ui, navvars, fmvars>>

\* Stage 3: try_cmd_delete returns; force_delete_alternative tests
\* result.is_ok() && !path.exists()
TryCmdDeleteReturn ==
    /\ del.pc = "s3_return"
    /\ LET r == del.cmd_result[1]
           d == [del EXCEPT !.after.s3 = ExistsText(Exists(fs)),
                            !.checks = Checked(r.ok, Exists(fs))]
       IN  del' = ReturnOr(d, after_try(r, Exists(fs)), "s4")
    /\ UNCHANGED <<ui, fs, navvars, fmvars>>

\* Stage 4: try_powershell_direct and the test of its result.
TryPowershellDirect(child, removed) ==
    /\ del.pc = "s4"
    /\ removed => (child # "spawn_error" /\ Exists(fs))
    /\ fs' = [fs EXCEPT !.target = Removal(removed)]
    /\ LET e == Exists(fs')
           r == try_powershell_direct_result(child)
           d == [del EXCEPT !.stages = Append(@, 4),
                            !.children.s4 = child,
                            !.ps_result = Some(r),
                            !.after.s4 = ExistsText(e),
                            !.checks = Checked(r.ok, e)]
       IN  del' = ReturnOr(d, after_try(r, e), "final")
    /\ UNCHANGED <<ui, navvars, fmvars>>

\* force_delete_alternative: the final check, if path.exists() { Err } else { Ok }
FinalCheck ==
    /\ del.pc = "final"
    /\ del' = [del EXCEPT !.checks = Append(@, Exists(fs)),
                          !.final_checked = TRUE,
                          !.result = Some(final_check(Exists(fs))),
                          !.pc = "match"]
    /\ UNCHANGED <<ui, fs, navvars, fmvars>>

\* delete_file, from the result of the delete on.
DeleteFileMatch ==
    /\ del.pc = "match"
    /\ ui' = IF del.variant = "file_manager.rs"
             THEN on_plain_result(ui, del.result[1], fs.target = "dir")
             ELSE on_elevated_result(ui, del.result[1], fs.target = "dir")
    /\ del' = [del EXCEPT !.pc = "done"]
    /\ UNCHANGED <<fs, navvars, fmvars>>

NextDelete ==
    \/ DeleteFile
    \/ \E ok \in BOOLEAN : PlainDelete(ok)
    \/ \E child \in ChildOutcomes, removed \in BOOLEAN : ElevatedRemove(child, removed)
    \/ \E wrote \in BOOLEAN : TryCmdDeleteWrite(wrote)
    \/ \E child \in ChildOutcomes, removed \in BOOLEAN : TryCmdDeleteRun(child, removed)
    \/ \E removed_ok \in BOOLEAN : TryCmdDeleteCleanup(removed_ok)
    \/ TryCmdDeleteReturn
    \/ \E child \in ChildOutcomes, removed \in BOOLEAN : TryPowershellDirect(child, removed)
    \/ FinalCheck
    \/ DeleteFileMatch

SpecDelete == InitDelete /\ [][NextDelete]_vars

\* delete_file runs on one thread, statement after statement: a step that can
\* be taken is taken, given that a spawned child process returns (each
\* Command::output() blocks until then).
SpecDeleteFair == InitDelete /\ [][NextDelete]_vars /\ WF_vars(NextDelete)

(* -------- FileManager: navigation and loads, beside NavigationState --- *)

\* FileManager::new() and NavigationState::new() in the same directory; the
\* constructor of FileManager starts the first load.
InitFM ==
    /\ current_path \in Paths
    /\ path_input = ToStringLossy(current_path)
    /\ history = <<ViewHistory(current_path, 0)>>
    /\ history_index = 0
    /\ max_history = DefaultMaxHistory
    /\ panicked = FALSE
    /\ lastOp = NoCall
    /\ prevOp = NoCall
    /\ nav_calls = [only_distinct |-> TRUE, paths |-> <<>>]
    /\ DeleteIdle
    /\ fm = NewFileManager(current_path)
    /\ loads = load_files_sync(<<>>, current_path)

\* A navigation to `path` (PathSubmitted, NavigateUp, NavigateHome, a click
\* on a selected directory, Backspace): FileManager::navigate_to_path, and
\* the same operation on the NavigationState.
NavigateToPath(path) ==
    /\ Len(loads) < MaxInFlight
    /\ LET f == navigate_to_path(fm, path)
       IN  /\ Len(f.history) <= MaxLen
           /\ fm' = f
    /\ loads' = load_files_sync(loads, path)
    /\ NavigateTo(path)
    /\ UNCHANGED delvars

\* Message::NavigateBack / Button::Back: FileManager::go_back, and go_back on
\* the NavigationState.
NavigateBack ==
    /\ LET r == fm_go_back(fm)
       IN  /\ r.load => Len(loads) < MaxInFlight
           /\ fm' = r.fm
           /\ loads' = IF r.load THEN load_files_sync(loads, r.fm.current_path)
                       ELSE loads
    /\ GoBack
    /\ UNCHANGED delvars

\* Message::NavigateForward / Button::Forward
NavigateForward ==
    /\ LET r == fm_go_forward(fm)
       IN  /\ r.load => Len(loads) < MaxInFlight
           /\ fm' = r.fm
           /\ loads' = IF r.load THEN load_files_sync(loads, r.fm.current_path)
                       ELSE loads
    /\ GoForward
    /\ UNCHANGED delvars

\* Message::Refresh: no navigation, one more load of the current directory.
Refresh ==
    /\ Len(loads) < MaxInFlight
    /\ fm' = fm_refresh_current_directory(fm)
    /\ loads' = load_files_sync(loads, fm.current_path)
    /\ UNCHANGED <<navvars, delvars>>

\* The k-th load in flight completes and its Message::FilesLoaded(result)
\* is handled. The futures run on the executor's threads: they complete in
\* any order.
FilesLoaded(k, result) ==
    /\ k \in 1..Len(loads)
    /\ result \in LoadResults(loads[k])
    /\ fm' = on_files_loaded(fm, result)
    /\ loads' = RemoveAt(loads, k)
    /\ UNCHANGED <<navvars, delvars>>

NextFM ==
    \/ \E path \in Paths : NavigateToPath(path)
    \/ NavigateBack
    \/ NavigateForward
    \/ Refresh
    \/ \E k \in 1..MaxInFlight :
          \E dir \in Paths : \E result \in LoadResults(dir) : FilesLoaded(k, result)

SpecFM == InitFM /\ [][NextFM]_vars

(* ------------------------------ claims -------------------------------- *)

\* The last call was a navigate_to that pushed an entry onto a full history
\* whose cursor was at the tail, so the oldest entry had to go.
Evicting(c) ==
    /\ c.op = "navigate_to"
    /\ Len(PreHistory(c)) = max_history
    /\ PreIndex(c) + 1 = Len(PreHistory(c))
    /\ At(PreHistory(c), PreIndex(c)).path # c.path

\* The last call was a navigate_to made while forward entries existed.
Branching(c) ==
    /\ c.op = "navigate_to"
    /\ PreIndex(c) + 1 < Len(PreHistory(c))

\* C1: in every reachable state the history is non-empty and
\* 0 <= history_index < history.len() (so no call has panicked on an index).
C1_IndexInRange ==
    /\ Len(history) >= 1
    /\ 0 <= history_index
    /\ history_index < Len(history)
    /\ ~panicked

\* C1 witness: an evicting navigate_to has run after a travel back and forth.
C1_Witness ==
    /\ Evicting(lastOp)
    /\ prevOp.op = "go_forward"
    /\ prevOp.ret # None
    /\ Len(history) >= 2

\* C2 (as claimed): navigate_to(path) with path equal to the current entry's
\* path leaves the entries, their scroll offsets and history_index unchanged,
\* wherever the cursor is.
C2_SamePathIsNoOp ==
    (/\ lastOp.op = "navigate_to"
     /\ lastOp.path = At(PreHistory(lastOp), PreIndex(lastOp)).path)
    => (history = PreHistory(lastOp) /\ history_index = PreIndex(lastOp))

\* C3: no two adjacent history entries have equal paths.
C3_NoAdjacentDuplicates ==
    \A k \in 1..(Len(history) - 1) : history[k].path # history[k + 1].path

\* C3 witness: a navigate_to to the current path (the suppressed duplicate)
\* right after an evicting navigate_to, in a history of three entries.
C3_Witness ==
    /\ Evicting(prevOp)
    /\ lastOp.op = "navigate_to"
    /\ lastOp.path = prevOp.path
    /\ Len(history) >= 3

\* C4: history.len() <= max_history in every reachable state; a navigate_to
\* that would exceed the bound removes exactly the entry at index 0 and the
\* remaining entries (followed by the new one) keep their order.
C4_BoundedHistory ==
    /\ Len(history) <= max_history
    /\ Evicting(lastOp) =>
          /\ Len(history) = Len(PreHistory(lastOp))
          /\ \A k \in 1..(Len(history) - 1) : history[k] = PreHistory(lastOp)[k + 1]
          /\ history[Len(history)].path = lastOp.path

\* C4 witness: an eviction from a history of three entries.
C4_Witness ==
    /\ Evicting(lastOp)
    /\ Len(PreHistory(lastOp)) = 3

\* C5: after every navigate_to(p) the cursor is at the tail and the entry
\* there has path p.
C5_CursorAtNewestEntry ==
    lastOp.op = "navigate_to" =>
        /\ Len(history) >= 1
        /\ history_index = Len(history) - 1
        /\ history[Len(history)].path = lastOp.path

\* C5 witness: two evicting navigate_to calls in a row.
C5_Witness ==
    /\ Evicting(lastOp)
    /\ Evicting(prevOp)
    /\ max_history >= 2

\* C6: after go_back() immediately followed by navigate_to(new_path) there is
\* no forward history: can_go_forward() is false, and go_forward() returns
\* None and leaves the cursor where it is.
C6_BranchDiscardsForward ==
    (prevOp.op = "go_back" /\ lastOp.op = "navigate_to") =>
        LET r == go_forward(history, history_index)
        IN  /\ ~can_go_forward(history, history_index)
            /\ history_index + 1 >= Len(history)
            /\ r.ret = None
            /\ r.history_index = history_index
            /\ ~r.panic

\* C6 witness: the go_back moved the cursor off the tail of a history of at
\* least three entries before the navigate_to.
C6_Witness ==
    /\ prevOp.op = "go_back"
    /\ prevOp.ret # None
    /\ Branching(lastOp)
    /\ Len(PreHistory(lastOp)) >= 3

\* C7: navigate_to(p) called twice in a row: the second call leaves
\* history.len() and history_index as the first call left them.
C7_SecondCallSuppressed ==
    (/\ prevOp.op = "navigate_to"
     /\ lastOp.op = "navigate_to"
     /\ prevOp.path = lastOp.path)
    => /\ Len(history) = Len(PreHistory(lastOp))
       /\ history_index = PreIndex(lastOp)

\* C7 witness: the first of the two calls pushed a new entry.
C7_Witness ==
    /\ prevOp.op = "navigate_to"
    /\ lastOp.op = "navigate_to"
    /\ prevOp.path = lastOp.path
    /\ At(PreHistory(prevOp), PreIndex(prevOp)).path # prevOp.path
    /\ Len(history) >= 2

\* C8: can_go_back() is false in the freshly constructed state, and after
\* the second and every later call of a run of navigate_to calls with
\* pairwise distinct paths it is true (for every max_history >= 2, which
\* includes the default).
C8_CanGoBackAfterSecondCall ==
    /\ (nav_calls.only_distinct /\ Len(nav_calls.paths) = 0)
          => ~can_go_back(history_index)
    /\ (nav_calls.only_distinct /\ Len(nav_calls.paths) >= 2 /\ max_history >= 2)
          => can_go_back(history_index)

\* C8 witness: three navigate_to calls with distinct paths under the default
\* max_history.
C8_Witness ==
    /\ nav_calls.only_distinct
    /\ Len(nav_calls.paths) = 3
    /\ max_history = DefaultMaxHistory

\* C9: go_back() at history_index == 0 and go_forward() at the tail return
\* None and leave the whole NavigationState unchanged; no go_back or
\* go_forward panics.
C9_BoundaryIsNoOp ==
    /\ (lastOp.op = "go_back" /\ PreIndex(lastOp) = 0)
          => (lastOp.ret = None /\ nav = lastOp.pre)
    /\ (lastOp.op = "go_forward" /\ PreIndex(lastOp) + 1 = Len(PreHistory(lastOp)))
          => (lastOp.ret = None /\ nav = lastOp.pre)
    /\ lastOp.op \in {"go_back", "go_forward"} => ~panicked

\* C9 witness: go_forward at the tail of a history of at least two entries,
\* right after a go_forward that moved.
C9_Witness ==
    /\ lastOp.op = "go_forward"
    /\ PreIndex(lastOp) + 1 = Len(PreHistory(lastOp))
    /\ prevOp.op = "go_forward"
    /\ prevOp.ret # None

\* C10: update_current_scroll(s) on entry e, then go_back, then go_forward:
\* go_back returns the entry before e with the offset it had before s was
\* written, and go_forward returns e's path with scroll s.
C10_ScrollRemembered ==
    (/\ prevOp.op = "update_current_scroll"
     /\ lastOp.op = "go_back"
     /\ PreIndex(lastOp) > 0)
    => /\ lastOp.ret = Some(At(PreHistory(prevOp), PreIndex(prevOp) - 1))
       /\ go_forward(history, history_index).ret
             = Some(ViewHistory(At(PreHistory(prevOp), PreIndex(prevOp)).path,
                                prevOp.scroll))

\* C10 witness: 0.0 was written to e while the entry before it holds 42.0,
\* and another entry with e's path exists earlier in the history.
C10_Witness ==
    /\ prevOp.op = "update_current_scroll"
    /\ prevOp.scroll = 0
    /\ lastOp.op = "go_back"
    /\ lastOp.ret # None
    /\ lastOp.ret[1].scroll = 42
    /\ \E k \in 1..history_index :
          history[k].path = At(history, history_index + 1).path

\* The escalating delete of delete.rs has ended (its result is being, or has
\* been, handled by delete_file).
Ended == del.variant = "delete.rs" /\ del.result # None

InSeq(x, q) == \E k \in 1..Len(q) : q[k] = x

\* C11: if the stage-1 plain delete reports success, delete_with_elevation
\* returns Success at once: no later stage runs, no child process is spawned
\* and no temporary script is written.
C11_PlainSuccessEndsCall ==
    (del.variant = "delete.rs" /\ del.normal_result = Some(Ok)) =>
        /\ del.pc \in {"match", "done"}
        /\ del.result = Some(Ok)
        /\ del.stages = <<1>>
        /\ del.children = [s2 |-> "none", s3 |-> "none", s4 |-> "none"]
        /\ del.script = "none"

\* C11 witness: a directory was removed by stage 1 and the call is over.
C11_Witness ==
    /\ del.variant = "delete.rs"
    /\ del.normal_result = Some(Ok)
    /\ del.is_dir
    /\ del.pc = "done"

\* C12 (as claimed): once the stage-2 process has returned and the target no
\* longer exists, the call ends with Success there: stage 3 and stage 4 are
\* not started, whatever exit status stage 2 reported.
C12_AbsentAfterStage2EndsCall ==
    (/\ del.variant = "delete.rs"
     /\ del.children.s2 \in {"success", "failure"}
     /\ del.after.s2 = "absent") =>
        /\ del.stages = <<1, 2>>
        /\ del.result = Some(Ok)

\* C13: stage 1 failed and the target is absent after the stage-2 process
\* returned: the outcome is Success for every outcome of that process
\* (zero, non-zero, failure to spawn).
C13_AbsentAfterStage2IsSuccess ==
    (Ended /\ del.normal_result # Some(Ok) /\ del.after.s2 = "absent") =>
        del.result = Some(Ok)

\* C13 witness: the stage-2 child reported a non-zero status although the
\* target is gone, and the call went through the final check.
C13_Witness ==
    /\ Ended
    /\ del.after.s2 = "absent"
    /\ del.children.s2 = "failure"
    /\ del.final_checked
    /\ del.pc = "done"

\* C14: when no stage removes the target, stages 1, 2, 3, 4 are each
\* attempted once in that order, then the final existence check runs and the
\* outcome is Failure("... still exists after all deletion attempts").
C14_AllStagesThenFailure ==
    (Ended /\ Exists(fs)) =>
        /\ del.stages = <<1, 2, 3, 4>>
        /\ del.final_checked
        /\ del.checks # <<>>
        /\ del.checks[Len(del.checks)] = TRUE
        /\ del.result = Some(Err(ErrStillExists))

\* C14 witness: every child reported success and the target still exists.
C14_Witness ==
    /\ Ended
    /\ Exists(fs)
    /\ del.children = [s2 |-> "success", s3 |-> "success", s4 |-> "success"]
    /\ del.pc = "done"

\* C15: a failure to spawn a child (or to write the batch file) counts as a
\* failed attempt: the next stage, or the final check, still runs before the
\* call ends, and the outcome is never one of the spawn / write errors.
C15_SpawnFailureFallsThrough ==
    Ended =>
        /\ del.children.s2 = "spawn_error" => InSeq(3, del.stages)
        /\ (del.children.s3 = "spawn_error" \/ del.cmd_result = Some(Err(ErrBatchCreate)))
              => InSeq(4, del.stages)
        /\ del.children.s4 = "spawn_error" => del.final_checked
        /\ del.result[1] \in {Ok, Err(ErrStillExists)}

\* C15 witness: the batch file could not be written, the stage-4 spawn
\* failed, and the call is over.
C15_Witness ==
    /\ Ended
    /\ del.children.s2 = "spawn_error"
    /\ del.cmd_result = Some(Err(ErrBatchCreate))
    /\ del.children.s4 = "spawn_error"
    /\ del.pc = "done"

\* C16: a written batch script awaits its removal only inside stage 3
\* (between the write and the removal attempt): stage 3 does not return and
\* stage 4 does not start before the removal was attempted, whatever the
\* invocation's outcome; and the stage result depends on the child's status
\* alone, not on whether the removal worked.
C16_ScriptRemovedBeforeStage3Returns ==
    /\ del.script = "written" => del.pc \in {"s3_run", "s3_cleanup"}
    /\ (InSeq(4, del.stages) /\ del.children.s3 # "none")
          => del.script \in {"removed", "remove_failed"}
    /\ del.script \in {"removed", "remove_failed"} =>
          /\ del.cmd_result # None
          /\ del.cmd_result[1].ok <=> (del.children.s3 = "success")

\* C16 witness: the invocation failed to spawn, the removal failed too, and
\* stage 4 has run.
C16_Witness ==
    /\ del.script = "remove_failed"
    /\ del.children.s3 = "spawn_error"
    /\ fs.batch_file
    /\ InSeq(4, del.stages)

\* C17: delete_file clears the popup and the earlier error message before
\* the delete is attempted; on Failure it sets an error message carrying the
\* reason, leaves the selection unchanged, starts no reload, and has
\* attempted no stage twice.
C17_FailureLeavesStateAlone ==
    /\ del.pc \in {"s1", "s2", "s3_write", "s3_run", "s3_cleanup", "s3_return",
                   "s4", "final", "match"}
          => (~ui.popup /\ ui.error_message = None)
    /\ (del.pc = "done" /\ ~del.result[1].ok) =>
          /\ ui.error_message # None
          /\ ui.error_message[1].reason = del.result[1].err
          /\ ~ui.popup
          /\ ui.selected_file = del.pre_ui[1].selected_file
          /\ ui.loads = 0
          /\ ~ui.loading
          /\ ui.cached_files = del.pre_ui[1].cached_files
          /\ \A j, k \in 1..Len(del.stages) : j # k => del.stages[j] # del.stages[k]

\* C17 witness: a failed delete of the selected file, started with a popup
\* open and an earlier error shown.
C17_Witness ==
    /\ del.pc = "done"
    /\ ~del.result[1].ok
    /\ del.pre_ui[1].popup
    /\ del.pre_ui[1].error_message # None
    /\ ui.selected_file = "target"

\* The last call was navigate_to(p) with p different from the path of the
\* entry that was current.
NavigatedElsewhere(c) ==
    /\ c.op = "navigate_to"
    /\ At(PreHistory(c), PreIndex(c)).path # c.path

\* C18: navigate_to(p) with p different from the current entry's path and
\* cursor c leaves the old entries 0..=c (paths and scroll offsets) followed
\* by exactly one new entry for p; the old entries after c are gone, and so
\* is the old entry 0 when the bound was exceeded.
C18_BranchKeepsPrefix ==
    NavigatedElsewhere(lastOp) =>
        LET base == SubSeq(PreHistory(lastOp), 1, PreIndex(lastOp) + 1)
            kept == IF Len(base) + 1 > max_history THEN Tail(base) ELSE base
        IN  /\ Len(history) = Len(kept) + 1
            /\ SubSeq(history, 1, Len(kept)) = kept
            /\ history[Len(history)].path = lastOp.path

\* C18 witness: two forward entries were discarded and a written scroll
\* offset survives in the kept prefix.
C18_Witness ==
    /\ NavigatedElsewhere(lastOp)
    /\ Len(PreHistory(lastOp)) >= PreIndex(lastOp) + 3
    /\ history[1].scroll = 42
    /\ Len(history) >= 2

\* C19: the entry appended by navigate_to(p) has the scroll offset of the
\* highest-index entry with path p in the whole history before the call
\* (entries after the cursor included), and 0.0 when there is none.
C19_AppendedScrollIsLatestVisit ==
    NavigatedElsewhere(lastOp) =>
        LET old == PreHistory(lastOp)
            new == history[Len(history)]
        IN  /\ Len(history) >= 1
            /\ IF \E k \in 1..Len(old) : old[k].path = lastOp.path
               THEN \E k \in 1..Len(old) :
                       /\ old[k].path = lastOp.path
                       /\ \A j \in (k + 1)..Len(old) : old[j].path # lastOp.path
                       /\ new.scroll = old[k].scroll
               ELSE new.scroll = 0

\* C19 witness: the latest visit of p lay after the cursor (and is discarded
\* by the call) with offset 42.0, an older visit of p has offset 0.0.
C19_Witness ==
    /\ NavigatedElsewhere(lastOp)
    /\ LET old == PreHistory(lastOp)
       IN  \E j, k \in 1..Len(old) :
              /\ j < k
              /\ PreIndex(lastOp) + 1 < k
              /\ old[j].path = lastOp.path /\ old[j].scroll = 0
              /\ old[k].path = lastOp.path /\ old[k].scroll = 42
    /\ history[Len(history)].scroll = 42

\* C20: update_current_scroll(s) sets the scroll offset of the entry at
\* history_index to s and changes nothing else: not the paths, not the other
\* offsets, not history.len(), history_index or current_path; and
\* get_current_scroll() then returns s.
C20_ScrollUpdateFrame ==
    lastOp.op = "update_current_scroll" =>
        LET old == PreHistory(lastOp)
        IN  /\ Len(history) = Len(old)
            /\ history_index = PreIndex(lastOp)
            /\ current_path = PreCurrentPath(lastOp)
            /\ path_input = PrePathInput(lastOp)
            /\ \A k \in 1..Len(old) :
                  /\ history[k].path = old[k].path
                  /\ k # history_index + 1 => history[k].scroll = old[k].scroll
            /\ At(history, history_index).scroll = lastOp.scroll
            /\ get_current_scroll(history, history_index) = lastOp.scroll

\* C20 witness: 42.0 is written to an entry in the middle of the history
\* whose path also occurs in another entry holding 0.0.
C20_Witness ==
    /\ lastOp.op = "update_current_scroll"
    /\ lastOp.scroll = 42
    /\ 0 < history_index
    /\ history_index + 1 < Len(history)
    /\ \E k \in 1..Len(history) :
          /\ k # history_index + 1
          /\ history[k].path = At(history, history_index).path
          /\ history[k].scroll = 0

\* C21: go_back and go_forward are inverse moves. A go_back from
\* history_index > 0 moves the cursor down by exactly one, a go_forward from
\* history_index + 1 < history.len() moves it up by exactly one, and a
\* successful move followed by the opposite move restores the whole
\* NavigationState (history_index, every entry, current_path, path_input).
C21_BackForwardInverse ==
    /\ (lastOp.op = "go_back" /\ PreIndex(lastOp) > 0)
          => (lastOp.ret # None /\ history_index = PreIndex(lastOp) - 1)
    /\ (lastOp.op = "go_forward" /\ PreIndex(lastOp) + 1 < Len(PreHistory(lastOp)))
          => (lastOp.ret # None /\ history_index = PreIndex(lastOp) + 1)
    /\ (prevOp.op = "go_back" /\ PreIndex(prevOp) > 0 /\ lastOp.op = "go_forward")
          => nav = prevOp.pre
    /\ (/\ prevOp.op = "go_forward"
        /\ PreIndex(prevOp) + 1 < Len(PreHistory(prevOp))
        /\ lastOp.op = "go_back")
          => nav = prevOp.pre

\* C21 witness: go_forward then go_back from a cursor with at least two
\* forward entries, restoring the state before the pair.
C21_Witness ==
    /\ prevOp.op = "go_forward"
    /\ PreIndex(prevOp) + 2 < Len(PreHistory(prevOp))
    /\ lastOp.op = "go_back"
    /\ lastOp.ret # None
    /\ nav = prevOp.pre

\* C22: only navigate_to changes the number or the paths of the history
\* entries: after go_back, go_forward and update_current_scroll
\* history.len() and every entry's path are what they were before the call.
\* (can_go_back, can_go_forward, get_current_scroll and get_visited_paths
\* take &self: they are functions of the state and assign nothing.)
C22_OnlyNavigateChangesEntries ==
    lastOp.op \in {"go_back", "go_forward", "update_current_scroll"} =>
        /\ Len(history) = Len(PreHistory(lastOp))
        /\ \A k \in 1..Len(PreHistory(lastOp)) :
              history[k].path = PreHistory(lastOp)[k].path
        /\ get_visited_paths(history) = get_visited_paths(PreHistory(lastOp))

\* C22 witness: a scroll offset is written in the middle of a history of at
\* least three entries, after a go_back that moved.
C22_Witness ==
    /\ prevOp.op = "go_back"
    /\ prevOp.ret # None
    /\ lastOp.op = "update_current_scroll"
    /\ lastOp.scroll # At(PreHistory(lastOp), PreIndex(lastOp)).scroll
    /\ history_index + 1 < Len(history)
    /\ Len(history) >= 3

\* C28: in every reachable state current_path is the path of the entry at
\* history_index and path_input is its string form (to_string_lossy).
C28_CurrentPathIsCurrentEntry ==
    /\ 0 <= history_index
    /\ history_index < Len(history)
    /\ current_path = At(history, history_index).path
    /\ path_input = ToStringLossy(At(history, history_index).path)

\* C28 witness: a navigate_to to the current path (a no-op) right after an
\* evicting navigate_to, with a path whose string form differs from it.
C28_Witness ==
    /\ Evicting(prevOp)
    /\ lastOp.op = "navigate_to"
    /\ lastOp.path = prevOp.path
    /\ history = PreHistory(lastOp)
    /\ path_input # current_path
    /\ Len(history) >= 2

\* C23: once stage 1 has failed, the outcome is Success if and only if the
\* last existence check performed during the call found the target absent:
\* with the target still present the outcome is never Success (whatever the
\* exit statuses), with the target absent it is never Failure.
C23_ExistenceDecidesOutcome ==
    (Ended /\ del.normal_result # Some(Ok)) =>
        /\ del.checks # <<>>
        /\ del.result[1].ok <=> (del.checks[Len(del.checks)] = FALSE)
        /\ Exists(fs) => ~del.result[1].ok
        /\ ~Exists(fs) => del.result[1].ok

\* C23 witness: stage 2 exited with status zero while the target was still
\* there, stage 4 exited non-zero although it removed the target, and the
\* final check found it absent.
C23_Witness ==
    /\ Ended
    /\ del.children.s2 = "success"
    /\ del.children.s4 = "failure"
    /\ del.checks = <<TRUE, FALSE>>
    /\ del.final_checked
    /\ del.result = Some(Ok)

\* C24: the escalation is linear. The stages attempted so far are 1, 2, ..,
\* k in that order, each once (k <= 4); stage 2 was started only after stage
\* 1 failed, stage 3 only after the stage-2 test did not end the call, stage
\* 4 only after the stage-3 test did not end it; the plain variant of
\* file_manager.rs attempts stage 1 only.
C24_LinearEscalation ==
    /\ Len(del.stages) <= 4
    /\ \A k \in 1..Len(del.stages) : del.stages[k] = k
    /\ InSeq(2, del.stages) => del.normal_result = Some(Err(ErrIo))
    /\ InSeq(3, del.stages) =>
          ~(del.children.s2 = "success" /\ del.after.s2 = "absent")
    /\ InSeq(4, del.stages) =>
          /\ del.cmd_result # None
          /\ ~(del.cmd_result[1].ok /\ del.after.s3 = "absent")
    /\ del.result # None => del.pc \in {"match", "done"}
    /\ del.variant = "file_manager.rs" => Len(del.stages) <= 1

\* C24 witness: all four stages were attempted, the batch invocation could
\* not be spawned, and the call is over.
C24_Witness ==
    /\ del.stages = <<1, 2, 3, 4>>
    /\ del.children.s3 = "spawn_error"
    /\ del.script = "removed"
    /\ del.pc = "done"

\* C26: every Failure returned by delete_with_elevation carries the reason
\* "File/folder still exists after all deletion attempts" and comes from the
\* final existence check; the errors made inside stage 3 and stage 4 are
\* never the result of the call.
C26_SingleFailureReason ==
    /\ (Ended /\ ~del.result[1].ok) =>
          /\ del.result[1].err = ErrStillExists
          /\ del.final_checked
          /\ del.result[1].err \notin {ErrBatchCreate, ErrBatchFailed, ErrBatchSpawn,
                                       ErrPsFailed, ErrPsSpawn, ErrIo}
    /\ (del.variant = "delete.rs" /\ ~del.final_checked) =>
          del.result \in {None, Some(Ok)}

\* C26 witness: a Failure after the batch command failed and the stage-4
\* PowerShell could not be spawned.
C26_Witness ==
    /\ Ended
    /\ ~del.result[1].ok
    /\ del.cmd_result = Some(Err(ErrBatchFailed))
    /\ del.ps_result = Some(Err(ErrPsSpawn))
    /\ del.pc = "done"

\* C29: the target does not exist when delete_with_elevation is called:
\* stage 1 fails (the call does not end there), the stage-2 process is
\* started, and the outcome is Success whatever the children report.
C29_AbsentTargetIsSuccess ==
    (del.variant = "delete.rs" /\ del.at_call = "absent") =>
        /\ del.normal_result \in {None, Some(Err(ErrIo))}
        /\ del.result # None =>
              /\ del.result = Some(Ok)
              /\ Len(del.stages) >= 2
              /\ del.stages[2] = 2
              /\ del.children.s2 # "none"

\* C29 witness: the target was absent at the call, no child reported
\* success, and the call went through all stages.
C29_Witness ==
    /\ Ended
    /\ del.at_call = "absent"
    /\ del.children = [s2 |-> "failure", s3 |-> "spawn_error", s4 |-> "failure"]
    /\ del.final_checked
    /\ del.pc = "done"

\* C25: every delete, once started, reaches an outcome (Success or
\* Failure(reason)) which delete_file then handles, after at most four stage
\* attempts, provided each spawned child returns; no step panics, and the
\* call never goes round a stage again.
C25_Terminates ==
    /\ [](Len(del.stages) <= 4)
    /\ [](del.pc = "done" => del.result # None)
    /\ (del.pc = "s1") ~> (del.result # None /\ del.pc = "done")

\* C25 witness: a call that attempted all four stages and ended with an
\* outcome, each of the three children having returned a status.
C25_Witness ==
    /\ del.variant = "delete.rs"
    /\ del.pc = "done"
    /\ del.result # None
    /\ Len(del.stages) = 4
    /\ del.children.s2 = "failure"
    /\ del.children.s3 = "success"
    /\ del.children.s4 = "success"

\* C27 (as claimed): the inline history of FileManager and NavigationState,
\* started in the same directory and given the same navigate / back / forward
\* operations, hold the same sequence of entry paths and the same cursor
\* after every step.
C27_SameStateMachine ==
    /\ fm.history = [k \in 1..Len(history) |-> history[k].path]
    /\ fm.history_index = history_index

\* C30 (as claimed): the listing held in cached_files was loaded from the
\* directory recorded beside it, and loading is false only when no load is
\* in flight.
C30_CachedListingMatchesDirectory ==
    /\ fm.cached_files # None =>
          fm.cached_files[1].files = Listing(fm.cached_files[1].dir)
    /\ ~fm.loading => loads = <<>>

====
